---- MODULE Spec2Model ----
(***************************************************************************)
(* Model of the flash-sale shop (src/flashSale-app/flashSale.py): the      *)
(* coupon redemption endpoint and the order lifecycle endpoints, each      *)
(* request served by its own thread with its own sqlite connection; and of *)
(* the rewards service (src/rewards-app/rewards.py): the balance reset and *)
(* the point transfer, on their own database.                              *)
(*                                                                         *)
(* Storage semantics (sqlite, rollback journal, python's implicit BEGIN):  *)
(*   - a SELECT outside a transaction reads the last committed state;      *)
(*   - the first UPDATE/INSERT of a connection opens a transaction and     *)
(*     takes the database write lock; a second writer waits for it;        *)
(*   - the writes of an open transaction are visible to nobody else until  *)
(*     commit() publishes them and releases the lock.                      *)
(***************************************************************************)
EXTENDS Integers, Sequences, FiniteSets

\* ---------------------------------------------------------------- bounds
MaxReqs == 2        \* requests in flight at once
MaxUsers == 2       \* users provisioned for a coupon campaign
MaxCap == 2         \* largest max_uses of a provisioned coupon
MaxOrders == 1      \* rows the orders table may grow to
MaxCalls == 2       \* requests to the rewards service in flight at once

Reqs == 1..MaxReqs
\* line 44: the user init_db seeds
SeedUsers == {1}
\* the users table of a campaign: the seeded user and the provisioned ones
CampaignUsers == 1..MaxUsers
\* the 'total' field of a checkout request: absent (0 by default), the 500 of
\* the end-to-end scenario, a negative number
Totals == {0 - 5, 0, 500}
\* order ids a request may name: ids of rows, and ids no row has yet
OrderIds == 1..(MaxOrders + 1)
TRACKING == "TRACK-12345"

\* the seeded coupon, and a code no row of coupons has
FLASH50 == "FLASH50"
Codes == {FLASH50}
RequestCodes == Codes \cup {"BOGUS"}
Discount == 50
Verdicts == {"pass", "fail", "timeout"}
NoUser == 0

VARIABLES
    users,         \* ids of the rows of the users table
    coupons,       \* committed coupons table: code -> [discount, max_uses, current_uses]
    redemptions,   \* committed coupon_redemptions table: row id -> [user_id, coupon_code]
    orders,        \* committed orders table: row id -> [user_id, total_amount, status]
    tx,            \* the open write transaction (owner 0: none) and its uncommitted tables
    reqs,          \* the requests: position in the handler, locals, response
    accounts,      \* rewards.db, committed users table: id -> [id, username, balance, is_admin]
    calls          \* the requests to the rewards service: position, g.user, locals, response

vars == <<users, coupons, redemptions, orders, tx, reqs, accounts, calls>>

\* the state of the shop, and the state of the rewards service
shop == <<users, coupons, redemptions, orders, tx, reqs>>
rewards == <<accounts, calls>>

\* ------------------------------------------------------------- responses
NoResp == [http |-> 0, body |-> "", order_id |-> 0, tracking |-> "", discount |-> 0]
Resp(http, body) == [NoResp EXCEPT !.http = http, !.body = body]

IdleReq ==
    [op |-> "none", pc |-> "idle", user |-> NoUser, code |-> "", order_id |-> 0,
     amount |-> 0, verdict |-> "", resp |-> NoResp]

NoTx == [owner |-> 0, coupons |-> << >>, redemptions |-> << >>, orders |-> << >>]

\* ---------------------------------------------------------- database layer
\* (a changed hook: the id of the header is trusted without the lookup)
authenticate_AnyId(h) == h

\* src: authenticate() -- g.user is the users row with that id, or None
authenticate(h) == IF h \in users THEN h ELSE NoUser

\* values of the X-User-ID header: 0 = header missing, the ids of users, an id of no user
Headers == 0..(Cardinality(users) + 1)

\* the first write statement of a connection opens its transaction
Begin(r) ==
    IF tx.owner = r THEN tx
    ELSE [owner |-> r, coupons |-> coupons, redemptions |-> redemptions, orders |-> orders]

CanWrite(r) == tx.owner \in {0, r}

\* publish the open transaction of r and release the write lock
Commit(r) ==
    /\ tx.owner = r
    /\ coupons' = tx.coupons
    /\ redemptions' = tx.redemptions
    /\ orders' = tx.orders
    /\ tx' = NoTx
    /\ UNCHANGED <<rewards, users>>

\* ------------------------------------------------------------ redeem_coupon
\* (a changed check: the last use is refused)
CouponExhausted_OffByOne(coupon) == coupon.current_uses + 1 >= coupon.max_uses

\* line 155
CouponExhausted(coupon) == coupon.current_uses >= coupon.max_uses

\* (a changed pre-check: a redemption of the code by any user counts)
AlreadyRedeemed_AnyUser(u, c) ==
    \E i \in 1..Len(redemptions) : redemptions[i].coupon_code = c

AlreadyRedeemed(u, c) ==
    \E i \in 1..Len(redemptions) :
        redemptions[i].user_id = u /\ redemptions[i].coupon_code = c

\* the handler returns: its locals are gone, the request and its response remain
Finish(r, resp) == reqs' = [reqs EXCEPT ![r].pc = "done", ![r].amount = 0, ![r].resp = resp]

Goto(r, pc) == reqs' = [reqs EXCEPT ![r].pc = pc]

\* a request arrives at a free slot (slots are taken in order)
Arrives(r) ==
    /\ reqs[r].pc = "idle"
    /\ \A q \in DOMAIN reqs : q < r => reqs[q].pc # "idle"

\* lines 140-143: the request is authenticated and its code read
redeem_coupon(r) ==
    /\ Arrives(r)
    /\ \E h \in Headers, c \in RequestCodes :
         LET u == authenticate(h) IN
         IF u = NoUser
         THEN reqs' = [reqs EXCEPT ![r] =
                  [IdleReq EXCEPT !.op = "redeem", !.pc = "done",
                                  !.resp = Resp(401, "Unauthorized")]]
         ELSE reqs' = [reqs EXCEPT ![r] =
                  [IdleReq EXCEPT !.op = "redeem", !.pc = "select_coupon",
                                  !.user = u, !.code = c]]
    /\ UNCHANGED <<rewards, users, coupons, redemptions, orders, tx>>

\* lines 148-156: SELECT the coupon; unknown -> 404; no uses left -> 400
redeem_select_coupon(r) ==
    /\ reqs[r].op = "redeem" /\ reqs[r].pc = "select_coupon"
    /\ IF reqs[r].code \notin DOMAIN coupons
       THEN Finish(r, Resp(404, "Invalid coupon"))
       ELSE IF CouponExhausted(coupons[reqs[r].code])
       THEN Finish(r, Resp(400, "Coupon exhausted"))
       ELSE Goto(r, "select_redemption")
    /\ UNCHANGED <<rewards, users, coupons, redemptions, orders, tx>>

\* (a changed handler: the write transaction is opened before the verification)
redeem_select_redemption_Locking(r) ==
    /\ reqs[r].op = "redeem" /\ reqs[r].pc = "select_redemption"
    /\ CanWrite(r)
    /\ IF AlreadyRedeemed(reqs[r].user, reqs[r].code)
       THEN Finish(r, Resp(400, "Coupon already used by you")) /\ UNCHANGED tx
       ELSE Goto(r, "verify") /\ tx' = Begin(r)
    /\ UNCHANGED <<rewards, users, coupons, redemptions, orders>>

\* lines 158-162: SELECT the user's redemption of the code
redeem_select_redemption(r) ==
    /\ reqs[r].op = "redeem" /\ reqs[r].pc = "select_redemption"
    /\ IF AlreadyRedeemed(reqs[r].user, reqs[r].code)
       THEN Finish(r, Resp(400, "Coupon already used by you"))
       ELSE Goto(r, "verify")
    /\ UNCHANGED <<rewards, users, coupons, redemptions, orders, tx>>

\* lines 164-166: the external validation is a sleep; whatever the service
\* would answer (v), the handler does not read it and goes on to the grant
redeem_verify(r) ==
    /\ reqs[r].op = "redeem" /\ reqs[r].pc = "verify"
    /\ \E v \in Verdicts :
         reqs' = [reqs EXCEPT ![r].pc = "update", ![r].verdict = v]
    /\ UNCHANGED <<rewards, users, coupons, redemptions, orders, tx>>

\* (a changed handler: the UPDATE takes a use back)
redeem_update_Decrement(r) ==
    /\ reqs[r].op = "redeem" /\ reqs[r].pc = "update"
    /\ CanWrite(r)
    /\ LET t == Begin(r) c == reqs[r].code IN
         tx' = [t EXCEPT !.coupons =
                  IF c \in DOMAIN t.coupons
                  THEN [t.coupons EXCEPT ![c].current_uses = @ - 1]
                  ELSE t.coupons]
    /\ Goto(r, "insert")
    /\ UNCHANGED <<rewards, users, coupons, redemptions, orders>>

\* line 170: UPDATE coupons SET current_uses = current_uses + 1
redeem_update(r) ==
    /\ reqs[r].op = "redeem" /\ reqs[r].pc = "update"
    /\ CanWrite(r)
    /\ LET t == Begin(r) c == reqs[r].code IN
         tx' = [t EXCEPT !.coupons =
                  IF c \in DOMAIN t.coupons
                  THEN [t.coupons EXCEPT ![c].current_uses = @ + 1]
                  ELSE t.coupons]
    /\ Goto(r, "insert")
    /\ UNCHANGED <<rewards, users, coupons, redemptions, orders>>

\* lines 171-172: INSERT INTO coupon_redemptions (no uniqueness constraint)
redeem_insert(r) ==
    /\ reqs[r].op = "redeem" /\ reqs[r].pc = "insert"
    /\ tx.owner = r
    /\ tx' = [tx EXCEPT !.redemptions =
                Append(@, [user_id |-> reqs[r].user, coupon_code |-> reqs[r].code])]
    /\ Goto(r, "commit")
    /\ UNCHANGED <<rewards, users, coupons, redemptions, orders>>

\* lines 173-174: commit, answer with the discount read at line 150
redeem_commit(r) ==
    /\ reqs[r].op = "redeem" /\ reqs[r].pc = "commit"
    /\ Commit(r)
    /\ Finish(r, [Resp(200, "Coupon applied") EXCEPT
                     !.discount = coupons[reqs[r].code].discount])

\* (a changed handler: no rollback, what was written before the failure is kept)
redeem_fail_NoRollback(r) ==
    /\ reqs[r].op = "redeem" /\ reqs[r].pc \in {"update", "insert", "commit"}
    /\ IF tx.owner = r
       THEN Commit(r)
       ELSE UNCHANGED <<rewards, users, coupons, redemptions, orders, tx>>
    /\ Finish(r, Resp(500, "Redemption failed"))

\* lines 175-179: a statement of the grant (or the commit) raises, because the
\* storage fails or the wait for the write lock times out: rollback, answer 500
redeem_fail(r) ==
    /\ reqs[r].op = "redeem" /\ reqs[r].pc \in {"update", "insert", "commit"}
    /\ tx' = IF tx.owner = r THEN NoTx ELSE tx
    /\ Finish(r, Resp(500, "Redemption failed"))
    /\ UNCHANGED <<rewards, users, coupons, redemptions, orders>>

\* ------------------------------------------------------------- create_order
\* lines 66-73: the request is authenticated and its total read
create_order(r, h, amount) ==
    /\ Arrives(r)
    /\ LET u == authenticate(h) IN
         IF u = NoUser
         THEN reqs' = [reqs EXCEPT ![r] =
                  [IdleReq EXCEPT !.op = "create", !.pc = "done",
                                  !.resp = Resp(401, "Authentication required")]]
         ELSE reqs' = [reqs EXCEPT ![r] =
                  [IdleReq EXCEPT !.op = "create", !.pc = "insert",
                                  !.user = u, !.amount = amount]]
    /\ UNCHANGED <<rewards, users, coupons, redemptions, orders, tx>>

\* lines 77-79: INSERT INTO orders ... 'PENDING'; lastrowid is the new row's id
create_insert(r) ==
    /\ reqs[r].op = "create" /\ reqs[r].pc = "insert"
    /\ CanWrite(r)
    /\ LET t == Begin(r) IN
         /\ tx' = [t EXCEPT !.orders =
                     Append(@, [user_id |-> reqs[r].user, total_amount |-> reqs[r].amount,
                                status |-> "PENDING"])]
         /\ reqs' = [reqs EXCEPT ![r].pc = "commit", ![r].order_id = Len(t.orders) + 1]
    /\ UNCHANGED <<rewards, users, coupons, redemptions, orders>>

\* lines 80-84
create_commit(r) ==
    /\ reqs[r].op = "create" /\ reqs[r].pc = "commit"
    /\ Commit(r)
    /\ Finish(r, [Resp(200, "PENDING") EXCEPT !.order_id = reqs[r].order_id])

\* ---------------------------------------------------------- process_payment
\* lines 89-94: the order id is read, the gateway delay starts
process_payment(r, id) ==
    /\ Arrives(r)
    /\ reqs' = [reqs EXCEPT ![r] =
                  [IdleReq EXCEPT !.op = "pay", !.pc = "update", !.order_id = id]]
    /\ UNCHANGED <<rewards, users, coupons, redemptions, orders, tx>>

\* UPDATE orders SET status = s WHERE id = i, on the tables t
SetStatus(t, i, s) ==
    IF i \in DOMAIN t.orders
    THEN [t EXCEPT !.orders = [t.orders EXCEPT ![i].status = s]]
    ELSE t

\* (a changed handler: only a PENDING order is paid, any other is refused)
payment_update_Strict(r) ==
    /\ reqs[r].op = "pay" /\ reqs[r].pc = "update"
    /\ CanWrite(r)
    /\ IF /\ reqs[r].order_id \in DOMAIN orders
          /\ orders[reqs[r].order_id].status = "PENDING"
       THEN /\ tx' = SetStatus(Begin(r), reqs[r].order_id, "PAID")
            /\ Goto(r, "commit")
       ELSE /\ tx' = tx
            /\ Finish(r, Resp(400, "Order cannot be paid (Invalid state)"))
    /\ UNCHANGED <<rewards, users, coupons, redemptions, orders>>

\* line 97: UPDATE orders SET status = 'PAID' WHERE id = ?  (whatever the status)
payment_update(r) ==
    /\ reqs[r].op = "pay" /\ reqs[r].pc = "update"
    /\ CanWrite(r)
    /\ tx' = SetStatus(Begin(r), reqs[r].order_id, "PAID")
    /\ Goto(r, "commit")
    /\ UNCHANGED <<rewards, users, coupons, redemptions, orders>>

\* lines 98-101: commit; the answer does not depend on the row
payment_commit(r) ==
    /\ reqs[r].op = "pay" /\ reqs[r].pc = "commit"
    /\ Commit(r)
    /\ Finish(r, Resp(200, "PAID"))

\* --------------------------------------------------------------- ship_order
\* lines 109-112
ship_order(r, id) ==
    /\ Arrives(r)
    /\ reqs' = [reqs EXCEPT ![r] =
                  [IdleReq EXCEPT !.op = "ship", !.pc = "select", !.order_id = id]]
    /\ UNCHANGED <<rewards, users, coupons, redemptions, orders, tx>>

\* (a changed check: a shipped order is not refused)
CannotShip_CancelledOnly(status) == status \in {"CANCELLED"}

\* (a changed check: a cancelled order is not refused)
CannotShip_ShippedOnly(status) == status \in {"SHIPPED"}

\* line 121: the statuses ship_order refuses
CannotShip(status) == status \in {"SHIPPED", "CANCELLED"}

\* lines 114-122: SELECT the order; missing -> 404; shipped or cancelled -> 400
ship_select(r) ==
    /\ reqs[r].op = "ship" /\ reqs[r].pc = "select"
    /\ IF reqs[r].order_id \notin DOMAIN orders
       THEN Finish(r, Resp(404, "Order not found"))
       ELSE IF CannotShip(orders[reqs[r].order_id].status)
       THEN Finish(r, Resp(400, "Order cannot be shipped (Invalid state)"))
       ELSE Goto(r, "update")
    /\ UNCHANGED <<rewards, users, coupons, redemptions, orders, tx>>

\* line 127: UPDATE orders SET status = 'SHIPPED' WHERE id = ?
ship_update(r) ==
    /\ reqs[r].op = "ship" /\ reqs[r].pc = "update"
    /\ CanWrite(r)
    /\ tx' = SetStatus(Begin(r), reqs[r].order_id, "SHIPPED")
    /\ Goto(r, "commit")
    /\ UNCHANGED <<rewards, users, coupons, redemptions, orders>>

\* lines 128-132
ship_commit(r) ==
    /\ reqs[r].op = "ship" /\ reqs[r].pc = "commit"
    /\ Commit(r)
    /\ Finish(r, [Resp(200, "SHIPPED") EXCEPT !.tracking = TRACKING])

\* the response has been sent: the serving thread takes the next request
respond(r) ==
    /\ reqs[r].pc = "done"
    /\ reqs' = [reqs EXCEPT ![r] = IdleReq]
    /\ UNCHANGED <<rewards, users, coupons, redemptions, orders, tx>>

\* ============================================================ rewards.py
Calls == 1..MaxCalls

\* lines 26-28: the users init_db seeds (ids are given in order of insertion)
SeedAccounts ==
    <<[id |-> 1, username |-> "alice", balance |-> 100, is_admin |-> 0],
      [id |-> 2, username |-> "bob", balance |-> 100, is_admin |-> 0],
      [id |-> 3, username |-> "admin", balance |-> 9999, is_admin |-> 1]>>

\* line 43: g.user = None
NoRow == [id |-> 0, username |-> "", balance |-> 0, is_admin |-> 0]

\* line 74: the balance every user is reset to
ResetBalance == 100

\* values of the X-User-ID header: 0 = header missing, ids of users, an id of no user
CallHeaders == 0..(Len(SeedAccounts) + 1)
\* the 'recipient' field of a transfer: usernames, and a name no user has
Recipients == {"alice", "bob", "admin", "nobody"}
\* the 'amount' field of a transfer, when int() accepts it
Amounts == {0 - 50, 0, 30, 150}

NoReply == [http |-> 0, body |-> "", sender_new_balance |-> 0]
Reply(http, body) == [NoReply EXCEPT !.http = http, !.body = body]

IdleCall ==
    [op |-> "none", pc |-> "idle", user |-> NoRow, audited |-> FALSE,
     recipient_name |-> "", amount |-> 0, recipient |-> NoRow, resp |-> NoReply]

\* lines 40-49: load_user -- g.user is the users row with the header's id, as it
\* is committed when the request arrives, or None
load_user(h) == IF h \in DOMAIN accounts THEN accounts[h] ELSE NoRow

\* a request arrives at a free slot (slots are taken in order)
CallArrives(k) ==
    /\ calls[k].pc = "idle"
    /\ \A j \in DOMAIN calls : j < k => calls[j].pc # "idle"

Return(k, resp) == calls' = [calls EXCEPT ![k].pc = "done", ![k].resp = resp]

\* line 66: the condition under which the audit line is printed
NotAdmin(user) == user = NoRow \/ user.is_admin # 1

\* lines 61-72: the permission check prints an audit line and does not return:
\* every request proceeds with the reset
admin_reset(k) ==
    /\ CallArrives(k)
    /\ \E h \in CallHeaders :
         LET user == load_user(h) IN
         calls' = [calls EXCEPT ![k] =
                     [IdleCall EXCEPT !.op = "reset", !.pc = "update", !.user = user,
                                      !.audited = NotAdmin(user)]]
    /\ UNCHANGED <<accounts, shop>>

\* lines 74-76: UPDATE users SET balance = 100; commit
reset_update(k) ==
    /\ calls[k].op = "reset" /\ calls[k].pc = "update"
    /\ accounts' = [i \in DOMAIN accounts |-> [accounts[i] EXCEPT !.balance = ResetBalance]]
    /\ Return(k, Reply(200, "System balances reset successfully"))
    /\ UNCHANGED shop

\* lines 83-97: no user -> 401; an amount int() rejects -> 400
transfer_points(k) ==
    /\ CallArrives(k)
    /\ \E h \in CallHeaders, name \in Recipients, isint \in BOOLEAN, amount \in Amounts :
         LET user == load_user(h) IN
         IF user = NoRow
         THEN calls' = [calls EXCEPT ![k] =
                  [IdleCall EXCEPT !.op = "transfer", !.pc = "done",
                                   !.resp = Reply(401, "Unauthorized")]]
         ELSE IF ~isint
         THEN calls' = [calls EXCEPT ![k] =
                  [IdleCall EXCEPT !.op = "transfer", !.pc = "done", !.user = user,
                                   !.resp = Reply(400, "Invalid amount format")]]
         ELSE calls' = [calls EXCEPT ![k] =
                  [IdleCall EXCEPT !.op = "transfer", !.pc = "select", !.user = user,
                                   !.recipient_name = name, !.amount = amount]]
    /\ UNCHANGED <<accounts, shop>>

\* lines 103-106: SELECT the recipient by username; none -> 404
transfer_select(k) ==
    /\ calls[k].op = "transfer" /\ calls[k].pc = "select"
    /\ LET found == {i \in DOMAIN accounts : accounts[i].username = calls[k].recipient_name} IN
         IF found = {}
         THEN Return(k, Reply(404, "Recipient not found"))
         ELSE calls' = [calls EXCEPT ![k].pc = "update",
                                     ![k].recipient = accounts[CHOOSE i \in found : TRUE]]
    /\ UNCHANGED <<accounts, shop>>

\* lines 110-123: the sender's row is set to g.user's balance minus the amount,
\* then the recipient's row to the balance read at line 103 plus the amount (the
\* second UPDATE wins when both are the same row); commit
transfer_update(k) ==
    /\ calls[k].op = "transfer" /\ calls[k].pc = "update"
    /\ LET new_sender_balance == calls[k].user.balance - calls[k].amount
           new_recipient_balance == calls[k].recipient.balance + calls[k].amount
           sent == [accounts EXCEPT ![calls[k].user.id].balance = new_sender_balance]
       IN  /\ accounts' = [sent EXCEPT ![calls[k].recipient.id].balance = new_recipient_balance]
           /\ Return(k, [Reply(200, "Transfer complete") EXCEPT
                            !.sender_new_balance = new_sender_balance])
    /\ UNCHANGED shop

\* the database of rewards.py as init_db leaves it, no request yet
RewardsSeeded ==
    /\ accounts = SeedAccounts
    /\ calls = [k \in Calls |-> IdleCall]

\* ------------------------------------------------------------ specification
\* the coupon endpoint on a campaign database: the coupon of line 43 with its
\* max_uses (100 in the seed) scaled to the bound, no redemption yet
InitCoupon ==
    /\ RewardsSeeded
    /\ users = CampaignUsers
    /\ \E m \in 1..MaxCap :
         coupons = [c \in Codes |-> [discount |-> Discount, max_uses |-> m, current_uses |-> 0]]
    /\ redemptions = << >>
    /\ orders = << >>
    /\ tx = NoTx
    /\ reqs = [r \in Reqs |-> IdleReq]

NextCoupon ==
    \E r \in Reqs :
        \/ redeem_coupon(r)
        \/ redeem_select_coupon(r)
        \/ redeem_select_redemption(r)
        \/ redeem_verify(r)
        \/ redeem_update(r)
        \/ redeem_insert(r)
        \/ redeem_commit(r)

SpecCoupon == InitCoupon /\ [][NextCoupon]_vars

\* the same with storage that may fail during the grant
NextCouponFaulty ==
    \/ NextCoupon
    \/ \E r \in Reqs : redeem_fail(r)

SpecCouponFaulty == InitCoupon /\ [][NextCouponFaulty]_vars

\* the order endpoints, on the seeded database with no order yet
InitOrder ==
    /\ RewardsSeeded
    /\ users = SeedUsers
    /\ coupons = [c \in Codes |-> [discount |-> Discount, max_uses |-> MaxCap, current_uses |-> 0]]
    /\ redemptions = << >>
    /\ orders = << >>
    /\ tx = NoTx
    /\ reqs = [r \in Reqs |-> IdleReq]

CreatesInFlight == {q \in DOMAIN reqs : reqs[q].op = "create" /\ reqs[q].pc # "done"}

NextOrder ==
    \E r \in Reqs :
        \/ /\ Len(orders) + Cardinality(CreatesInFlight) < MaxOrders
           /\ \E h \in Headers, a \in Totals : create_order(r, h, a)
        \/ create_insert(r)
        \/ create_commit(r)
        \/ \E id \in OrderIds : process_payment(r, id)
        \/ payment_update(r)
        \/ payment_commit(r)
        \/ \E id \in OrderIds : ship_order(r, id)
        \/ ship_select(r)
        \/ ship_update(r)
        \/ ship_commit(r)
        \/ respond(r)

SpecOrder == InitOrder /\ [][NextOrder]_vars

\* the end-to-end checkout: one authenticated user sends checkout, payment,
\* shipping and shipping again, each request after the answer to the one before,
\* on a database that may already hold orders
ScriptReqs == 1..4

OrderRows ==
    [user_id : SeedUsers, total_amount : Totals, status : {"PENDING", "PAID", "SHIPPED"}]

Answered(r) == \A q \in DOMAIN reqs : q < r => reqs[q].pc = "done"

InitCheckout ==
    /\ RewardsSeeded
    /\ users = SeedUsers
    /\ coupons = [c \in Codes |-> [discount |-> Discount, max_uses |-> MaxCap, current_uses |-> 0]]
    /\ redemptions = << >>
    /\ orders \in UNION {[1..n -> OrderRows] : n \in 0..MaxOrders}
    /\ tx = NoTx
    /\ reqs = [r \in ScriptReqs |-> IdleReq]

NextCheckout ==
    \/ \E h \in users, a \in Totals : create_order(1, h, a)
    \/ create_insert(1)
    \/ create_commit(1)
    \/ Answered(2) /\ reqs[1].resp.http = 200 /\ process_payment(2, reqs[1].resp.order_id)
    \/ payment_update(2)
    \/ payment_commit(2)
    \/ \E r \in {3, 4} :
         \/ Answered(r) /\ ship_order(r, reqs[1].resp.order_id)
         \/ ship_select(r)
         \/ ship_update(r)
         \/ ship_commit(r)

SpecCheckout == InitCheckout /\ [][NextCheckout]_vars

\* payment and shipping on a database that already holds orders, in any of the
\* statuses the schema documents (line 29); nothing in this program writes
\* CANCELLED, such a row comes from outside it
OrderStatuses == {"PENDING", "PAID", "SHIPPED", "CANCELLED"}

StoredOrders == [user_id : SeedUsers, total_amount : {500}, status : OrderStatuses]

InitFulfil ==
    /\ RewardsSeeded
    /\ users = SeedUsers
    /\ coupons = [c \in Codes |-> [discount |-> Discount, max_uses |-> MaxCap, current_uses |-> 0]]
    /\ redemptions = << >>
    /\ orders \in UNION {[1..n -> StoredOrders] : n \in 0..MaxOrders}
    /\ tx = NoTx
    /\ reqs = [r \in Reqs |-> IdleReq]

NextFulfil ==
    \E r \in Reqs :
        \/ \E id \in OrderIds : process_payment(r, id)
        \/ payment_update(r)
        \/ payment_commit(r)
        \/ \E id \in OrderIds : ship_order(r, id)
        \/ ship_select(r)
        \/ ship_update(r)
        \/ ship_commit(r)
        \/ respond(r)

SpecFulfil == InitFulfil /\ [][NextFulfil]_vars

\* the next step of redeem request q, wherever it is in the handler
RedeemStep(q) ==
    \/ redeem_coupon(q)
    \/ redeem_select_coupon(q)
    \/ redeem_select_redemption(q)
    \/ redeem_verify(q)
    \/ redeem_update(q)
    \/ redeem_insert(q)
    \/ redeem_commit(q)

\* the whole application on the seeded database: every endpoint may be called,
\* by at most MaxReqs requests in all
NextShop ==
    \E r \in Reqs :
        \/ RedeemStep(r)
        \/ /\ Len(orders) + Cardinality(CreatesInFlight) < MaxOrders
           /\ \E h \in Headers, a \in Totals : create_order(r, h, a)
        \/ create_insert(r)
        \/ create_commit(r)
        \/ \E id \in OrderIds : process_payment(r, id)
        \/ payment_update(r)
        \/ payment_commit(r)
        \/ \E id \in OrderIds : ship_order(r, id)
        \/ ship_select(r)
        \/ ship_update(r)
        \/ ship_commit(r)

SpecShop == InitOrder /\ [][NextShop]_vars

\* the rewards service on its seeded database (the shop is not called)
NextRewards ==
    \E k \in Calls :
        \/ admin_reset(k)
        \/ reset_update(k)
        \/ transfer_points(k)
        \/ transfer_select(k)
        \/ transfer_update(k)

\* both databases as their init_db leaves them
InitRewards == InitOrder

SpecRewards == InitRewards /\ [][NextRewards]_vars

\* ================================================================== claims
\* the requests that redeem coupon c (authenticated: the others carry no code)
Redeems(c) == {r \in DOMAIN reqs : reqs[r].op = "redeem" /\ reqs[r].code = c}

DistinctUsers(S) == \A r \in S, q \in S : reqs[r].user = reqs[q].user => r = q

AllDone(S) == \A r \in S : reqs[r].pc = "done"

With(S, body) == {r \in S : reqs[r].pc = "done" /\ reqs[r].resp.body = body}

\* no request of S had its verification fail or time out
AllVerified(S) == \A r \in S : reqs[r].verdict \in {"", "pass"}

\* C1: in every reachable state, whatever the interleaving of redeem requests,
\* 0 <= current_uses <= max_uses holds for every coupon.
C1_CapacityBound ==
    \A c \in DOMAIN coupons :
        /\ 0 <= coupons[c].current_uses
        /\ coupons[c].current_uses <= coupons[c].max_uses

\* C2: with capacity C, no prior redemption and N >= C requests of N distinct
\* users whose verifications all pass, once all have finished exactly C answered
\* 'Coupon applied', exactly N - C 'Coupon exhausted', and current_uses = C.
C2_ExactlyCapacityGranted ==
    LET rs == Redeems(FLASH50)
        N == Cardinality(rs)
        C == coupons[FLASH50].max_uses
    IN  (N >= C /\ DistinctUsers(rs) /\ AllDone(rs) /\ AllVerified(rs)) =>
            /\ Cardinality(With(rs, "Coupon applied")) = C
            /\ Cardinality(With(rs, "Coupon exhausted")) = N - C
            /\ coupons[FLASH50].current_uses = C

\* C3: in every reachable state coupon_redemptions holds at most one row for
\* each (coupon_code, user_id) pair.
C3_OneRowPerUserAndCode ==
    \A i \in 1..Len(redemptions), j \in 1..Len(redemptions) :
        (/\ redemptions[i].user_id = redemptions[j].user_id
         /\ redemptions[i].coupon_code = redemptions[j].coupon_code) => i = j

\* C4: two requests of the same user for the same code, capacity at least 2 and
\* no other redemption of it: once both have finished, exactly one answered
\* 'Coupon applied' and the other 'Coupon already used by you'.
C4_SameUserOneGrant ==
    \A r \in Redeems(FLASH50), q \in Redeems(FLASH50) :
        (/\ r # q
         /\ Redeems(FLASH50) = {r, q}
         /\ reqs[r].user = reqs[q].user
         /\ coupons[FLASH50].max_uses >= 2
         /\ AllDone({r, q})) =>
            /\ Cardinality(With({r, q}, "Coupon applied")) = 1
            /\ Cardinality(With({r, q}, "Coupon already used by you")) = 1

C6_Step ==
    /\ \A r \in DOMAIN reqs :
         (reqs[r].verdict \in {"fail", "timeout"} /\ reqs'[r] # reqs[r]) =>
            /\ coupons' = coupons
            /\ redemptions' = redemptions
            /\ reqs'[r].pc = "done" => reqs'[r].resp.body = "VERIFICATION_FAILED"
    /\ \A r \in Redeems(FLASH50), q \in Redeems(FLASH50) :
         (/\ Redeems(FLASH50) = {r, q}
          /\ coupons[FLASH50].max_uses = 1
          /\ reqs[r].user # reqs[q].user
          /\ reqs[r].pc = "done" /\ reqs[r].verdict \in {"fail", "timeout"}
          /\ reqs[q].verdict = "pass"
          /\ reqs[q].pc # "done" /\ reqs'[q].pc = "done") =>
            reqs'[q].resp.body = "Coupon applied"

C7_Step ==
    /\ \A r \in DOMAIN reqs :
         (/\ reqs[r].op = "ship" /\ reqs[r].pc = "select" /\ reqs'[r].pc # "select"
          /\ reqs[r].order_id \in DOMAIN orders
          /\ orders[reqs[r].order_id].status = "PENDING") =>
            /\ reqs'[r].pc = "done"
            /\ reqs'[r].resp.http = 400
            /\ reqs'[r].resp.body = "Order cannot be shipped (Invalid state)"
    /\ \A i \in DOMAIN orders :
         (orders[i].status # "SHIPPED" /\ orders'[i].status = "SHIPPED") =>
            orders[i].status = "PAID"

C7_ShipOnlyFromPaid == [][C7_Step]_vars

\* the place of a status on the path PENDING -> PAID -> SHIPPED
Rank(status) ==
    CASE status = "PENDING" -> 0
      [] status = "PAID" -> 1
      [] OTHER -> 2

\* C8: in every step, an order whose status is SHIPPED or CANCELLED keeps it,
\* and no order moves backwards on PENDING -> PAID -> SHIPPED.
C8_Step ==
    \A i \in DOMAIN orders :
        /\ orders[i].status \in {"SHIPPED", "CANCELLED"} =>
              orders'[i].status = orders[i].status
        /\ Rank(orders'[i].status) >= Rank(orders[i].status)

C8_StatusMonotonic == [][C8_Step]_vars

\* C9: of the ship_order requests for one order id, at most one is answered
\* with the success response (SHIPPED and a tracking token).
C9_ShippedOnce ==
    \A r \in DOMAIN reqs, q \in DOMAIN reqs :
        (/\ reqs[r].op = "ship" /\ reqs[q].op = "ship"
         /\ reqs[r].order_id = reqs[q].order_id
         /\ reqs[r].pc = "done" /\ reqs[q].pc = "done"
         /\ reqs[r].resp.http = 200 /\ reqs[q].resp.http = 200) => r = q

\* C10: run one after the other by an authenticated user: create_order answers
\* a new order id with status PENDING; process_payment on it leaves it PAID;
\* ship_order leaves it SHIPPED and answers a non-empty tracking token; a second
\* ship_order answers 400 (invalid state) and the status stays SHIPPED.
C10_EndToEndCheckout ==
    LET id == reqs[1].resp.order_id IN
    /\ reqs[1].pc = "done" =>
         /\ reqs[1].resp.http = 200 /\ reqs[1].resp.body = "PENDING"
         /\ id = Len(orders) /\ id >= 1
         /\ orders[id].user_id = reqs[1].user
    /\ (reqs[1].pc = "done" /\ reqs[2].pc # "done") => orders[id].status = "PENDING"
    /\ reqs[2].pc = "done" =>
         /\ reqs[2].resp.http = 200 /\ reqs[2].resp.body = "PAID"
         /\ reqs[3].pc # "done" => orders[id].status = "PAID"
    /\ reqs[3].pc = "done" =>
         /\ reqs[3].resp.http = 200 /\ reqs[3].resp.body = "SHIPPED"
         /\ reqs[3].resp.tracking # ""
         /\ orders[id].status = "SHIPPED"
    /\ reqs[4].pc = "done" =>
         /\ reqs[4].resp.http = 400
         /\ reqs[4].resp.body = "Order cannot be shipped (Invalid state)"
         /\ orders[id].status = "SHIPPED"

\* C10's case: the four requests have been answered, on a database that held
\* an order before
C10_Witness ==
    /\ DOMAIN reqs = ScriptReqs
    /\ \A r \in ScriptReqs : reqs[r].pc = "done"
    /\ reqs[1].resp.order_id >= 2

\* C11: process_payment on an order id that no row has answers 404 NOT_FOUND,
\* not 'PAID', and leaves orders unchanged; ship_order on an unknown id answers
\* 404 'Order not found' and changes nothing.
C11_Step ==
    \A r \in DOMAIN reqs :
        (/\ reqs[r].op \in {"pay", "ship"}
         /\ reqs[r].pc # "done" /\ reqs'[r].pc = "done"
         /\ reqs[r].order_id \notin DOMAIN orders) =>
            /\ reqs'[r].resp.http = 404
            /\ reqs'[r].resp.body # "PAID"
            /\ orders' = orders

C11_UnknownOrderNotFound == [][C11_Step]_vars

\* C13: in every reachable state every row of orders has total_amount >= 0
\* (a checkout with a negative total stores no order).
C13_NonNegativeTotals ==
    \A i \in DOMAIN orders : orders[i].total_amount >= 0

\* the rows of coupon_redemptions for code c
RowsFor(c) == {i \in 1..Len(redemptions) : redemptions[i].coupon_code = c}

\* C14: in every committed state a coupon's current_uses equals the number of
\* coupon_redemptions rows for its code, whatever the interleaving and also when
\* the UPDATE, the INSERT or the commit of a grant fails (neither write persists).
C14_AllOrNothing ==
    \A c \in DOMAIN coupons : coupons[c].current_uses = Cardinality(RowsFor(c))

\* C14's case: a grant failed and was rolled back, another was committed
C14_Witness ==
    /\ \E r \in DOMAIN reqs : reqs[r].pc = "done" /\ reqs[r].resp.http = 500
    /\ \E r \in DOMAIN reqs : reqs[r].pc = "done" /\ reqs[r].resp.body = "Coupon applied"
    /\ coupons[FLASH50].current_uses >= 1
    /\ tx = NoTx

InVerification(r) == reqs[r].op = "redeem" /\ reqs[r].pc = "verify"

\* C15: a redeem request that is in the verification step owns no write
\* transaction (no lock, no reservation), and every other request can take its
\* next step (arrive, pre-check, enter verification, write, commit) unless a
\* third request's open write transaction makes it wait; so two requests can be
\* in verification at once.
C15_NoLockInVerification ==
    \A r \in DOMAIN reqs :
        InVerification(r) =>
            /\ tx.owner # r
            /\ \A q \in DOMAIN reqs \ {r} :
                   (/\ reqs[q].pc # "done"
                    /\ reqs[q].pc = "idle" => Arrives(q)
                    /\ tx.owner \in {0, q}) => ENABLED RedeemStep(q)

\* C15's case: two requests for the same code in verification at once
C15_Witness ==
    \E r, q \in DOMAIN reqs :
        /\ r # q /\ InVerification(r) /\ InVerification(q)
        /\ reqs[r].code = reqs[q].code

PreCheckRejections == {"Invalid coupon", "Coupon exhausted", "Coupon already used by you"}

\* C16: the pre-check reads the coupon first and the user's redemption second.
\* At the first read an unknown code is answered 404 'Invalid coupon', a known
\* code with current_uses >= max_uses 400 'Coupon exhausted'; at the second
\* read an existing row for (user, code) is answered 400 'Coupon already used by
\* you'; otherwise the request goes on.  A request ends in one of these three
\* answers only at those reads, and the step leaves coupons and
\* coupon_redemptions as they were.
C16_Step ==
    \A r \in DOMAIN reqs :
        LET c == reqs[r].code
            u == reqs[r].user
            used == \E i \in 1..Len(redemptions) :
                        /\ redemptions[i].user_id = u
                        /\ redemptions[i].coupon_code = c
            rejected(http, body) ==
                /\ reqs'[r].pc = "done"
                /\ reqs'[r].resp.http = http /\ reqs'[r].resp.body = body
                /\ coupons' = coupons /\ redemptions' = redemptions
        IN
        /\ (reqs[r].op = "redeem" /\ reqs[r].pc = "select_coupon" /\ reqs'[r] # reqs[r]) =>
               IF c \notin DOMAIN coupons
               THEN rejected(404, "Invalid coupon")
               ELSE IF coupons[c].current_uses >= coupons[c].max_uses
               THEN rejected(400, "Coupon exhausted")
               ELSE reqs'[r].pc = "select_redemption"
        /\ (reqs[r].op = "redeem" /\ reqs[r].pc = "select_redemption" /\ reqs'[r] # reqs[r]) =>
               IF used
               THEN rejected(400, "Coupon already used by you")
               ELSE reqs'[r].pc = "verify"
        /\ (/\ reqs[r].pc # "done" /\ reqs'[r].pc = "done"
            /\ reqs'[r].op = "redeem"
            /\ reqs'[r].resp.body \in PreCheckRejections) =>
               /\ reqs[r].pc \in {"select_coupon", "select_redemption"}
               /\ coupons' = coupons /\ redemptions' = redemptions

C16_PreCheckRejections == [][C16_Step]_vars

\* C16's case: exhaustion takes priority (a caller who already holds a
\* redemption is answered 'Coupon exhausted', not 'Coupon already used by you')
C16_Witness ==
    \E r \in DOMAIN reqs :
        /\ reqs[r].pc = "done" /\ reqs[r].resp.body = "Coupon exhausted"
        /\ \E i \in 1..Len(redemptions) :
              /\ redemptions[i].user_id = reqs[r].user
              /\ redemptions[i].coupon_code = reqs[r].code

\* C17: ship_order that reads its order as SHIPPED or CANCELLED answers 400
\* 'Order cannot be shipped (Invalid state)' at that read and leaves the order's
\* status and every other row as they were (and opens no transaction).
C17_Step ==
    \A r \in DOMAIN reqs :
        (/\ reqs[r].op = "ship" /\ reqs[r].pc = "select"
         /\ reqs'[r] # reqs[r]
         /\ reqs[r].order_id \in DOMAIN orders
         /\ orders[reqs[r].order_id].status \in {"SHIPPED", "CANCELLED"}) =>
            /\ reqs'[r].pc = "done"
            /\ reqs'[r].resp.http = 400
            /\ reqs'[r].resp.body = "Order cannot be shipped (Invalid state)"
            /\ reqs'[r].resp.tracking = ""
            /\ orders' = orders
            /\ coupons' = coupons /\ redemptions' = redemptions /\ users' = users
            /\ tx' = tx

C17_RefusesShippedAndCancelled == [][C17_Step]_vars

\* C17's case: shipping a CANCELLED order was refused and the order is CANCELLED
C17_Witness ==
    \E r \in DOMAIN reqs :
        /\ reqs[r].op = "ship" /\ reqs[r].pc = "done"
        /\ reqs[r].resp.body = "Order cannot be shipped (Invalid state)"
        /\ reqs[r].order_id \in DOMAIN orders
        /\ orders[reqs[r].order_id].status = "CANCELLED"

\* C18: process_payment on an order that is already PAID is accepted: its
\* UPDATE writes the row as it was, it answers 200 with status PAID, and the
\* commit leaves the order PAID and every row of every table unchanged.
C18_Step ==
    \A r \in DOMAIN reqs :
        LET id == reqs[r].order_id
            paid == /\ reqs[r].op = "pay"
                    /\ id \in DOMAIN orders
                    /\ orders[id].status = "PAID"
        IN
        /\ (paid /\ reqs[r].pc = "update" /\ reqs'[r] # reqs[r]) =>
               /\ reqs'[r].pc = "commit"
               /\ tx'.orders = orders
        /\ (paid /\ reqs[r].pc # "done" /\ reqs'[r].pc = "done") =>
               /\ reqs'[r].resp.http = 200
               /\ reqs'[r].resp.body = "PAID"
               /\ orders' = orders
               /\ orders'[id].status = "PAID"
               /\ coupons' = coupons /\ redemptions' = redemptions /\ users' = users

C18_PaymentIdempotentOnPaid == [][C18_Step]_vars

\* C18's case: the same order was paid twice, and is PAID
C18_Witness ==
    \E r, q \in DOMAIN reqs :
        /\ r # q
        /\ reqs[r].op = "pay" /\ reqs[q].op = "pay"
        /\ reqs[r].pc = "done" /\ reqs[q].pc = "done"
        /\ reqs[r].order_id = reqs[q].order_id
        /\ reqs[r].order_id \in DOMAIN orders
        /\ orders[reqs[r].order_id].status = "PAID"

\* C12: a create_order or redeem_coupon request whose X-User-ID is missing or
\* matches no user is answered 401 on arrival, and that step changes no row of
\* orders, coupons or coupon_redemptions (and opens no transaction); only
\* requests of a known user go on into the handler.
C12_Step ==
    \A r \in DOMAIN reqs :
        (/\ reqs[r].pc = "idle" /\ reqs'[r].pc # "idle"
         /\ reqs'[r].op \in {"create", "redeem"}
         /\ reqs'[r].user \notin users) =>
            /\ reqs'[r].pc = "done"
            /\ reqs'[r].resp.http = 401
            /\ reqs'[r].resp.body \in {"Authentication required", "Unauthorized"}
            /\ orders' = orders /\ coupons' = coupons /\ redemptions' = redemptions
            /\ tx' = tx

C12_NoIdentityUnauthorized == [][C12_Step]_vars

\* C12's case: a checkout and a redemption without identity were both refused
C12_Witness ==
    /\ \E r \in DOMAIN reqs :
          reqs[r].op = "create" /\ reqs[r].pc = "done" /\ reqs[r].resp.http = 401
    /\ \E r \in DOMAIN reqs :
          reqs[r].op = "redeem" /\ reqs[r].pc = "done" /\ reqs[r].resp.http = 401
    /\ orders = << >> /\ redemptions = << >>

\* C19: in every step the set of coupon codes and each coupon's discount and
\* max_uses stay the same and current_uses does not decrease; coupons and
\* coupon_redemptions change only in the commit step of a redeem_coupon request;
\* no step of create_order, process_payment or ship_order changes them.
C19_Step ==
    /\ DOMAIN coupons' = DOMAIN coupons
    /\ \A c \in DOMAIN coupons :
          /\ coupons'[c].discount = coupons[c].discount
          /\ coupons'[c].max_uses = coupons[c].max_uses
          /\ coupons'[c].current_uses >= coupons[c].current_uses
    /\ (coupons' # coupons \/ redemptions' # redemptions) =>
          \E r \in DOMAIN reqs :
              /\ reqs[r].op = "redeem" /\ reqs[r].pc = "commit"
              /\ reqs'[r].pc = "done"
    /\ \A r \in DOMAIN reqs :
          (reqs'[r] # reqs[r] /\ reqs'[r].op \in {"create", "pay", "ship"}) =>
              coupons' = coupons /\ redemptions' = redemptions

C19_CouponFrame == [][C19_Step]_vars

\* C19's case: a grant was committed and an order was written
C19_Witness ==
    /\ coupons[FLASH50].current_uses >= 1
    /\ redemptions # << >>
    /\ orders # << >>

\* C20: a step of an admin_reset request changes users' balances only if the
\* requester is an authenticated user with is_admin = 1 (a request of an
\* anonymous caller or of a non-admin user leaves every balance as it was).
C20_Step ==
    \A k \in DOMAIN calls :
        (/\ calls[k].op = "reset"
         /\ calls'[k] # calls[k]
         /\ \E i \in DOMAIN accounts : accounts'[i].balance # accounts[i].balance) =>
            /\ calls[k].user # NoRow
            /\ calls[k].user.is_admin = 1

C20_ResetOnlyByAdmin == [][C20_Step]_vars

\* the sum of the balances of the rows 1..n of table a
RECURSIVE SumBalances(_, _)
SumBalances(a, n) == IF n = 0 THEN 0 ELSE a[n].balance + SumBalances(a, n - 1)

TotalPoints(a) == SumBalances(a, Len(a))

\* C21: every step of a transfer_points request leaves the sum of all users'
\* balances as it was, and the step that writes changes only the sender's
\* balance, by -amount, and the recipient's, by +amount (a transfer to oneself
\* changes nothing), whoever the sender and the recipient are and whatever
\* other transfers run at the same time.
C21_Step ==
    \A k \in DOMAIN calls :
        (calls[k].op = "transfer" /\ calls'[k] # calls[k]) =>
            /\ TotalPoints(accounts') = TotalPoints(accounts)
            /\ accounts' # accounts =>
                  LET s == calls[k].user.id
                      t == calls[k].recipient.id
                      delta(i) == (IF i = t THEN calls[k].amount ELSE 0)
                                      - (IF i = s THEN calls[k].amount ELSE 0)
                  IN  \A i \in DOMAIN accounts :
                          accounts'[i].balance = accounts[i].balance + delta(i)

C21_TransferConserves == [][C21_Step]_vars

\* C22: no balance is ever negative, and a step of a transfer_points request
\* never lowers the balance of a user other than its sender: a transfer whose
\* amount is zero, negative or more than the sender's balance changes no
\* balance at all.
C22_Step ==
    /\ \A i \in DOMAIN accounts : accounts'[i].balance >= 0
    /\ \A k \in DOMAIN calls :
          (calls[k].op = "transfer" /\ calls'[k] # calls[k]) =>
              /\ \A i \in DOMAIN accounts :
                    i # calls[k].user.id => accounts'[i].balance >= accounts[i].balance
              /\ (calls[k].amount <= 0 \/ calls[k].amount > calls[k].user.balance) =>
                    accounts' = accounts

C22_NoOverdraftNoTheft == [][C22_Step]_vars

====
